---- MODULE Spec2Model ----
(***************************************************************************)
(* Model of pycrate_asn1rt/asn1fuzz.py: the Asn1Container tree, its        *)
(* expansion (expand_once), pruning (remove_expandable), value generation  *)
(* (fuzz) and coverage flags (fully_covered, reset_coverage).              *)
(*                                                                         *)
(* A container is a record with the attributes __init__ sets.  A dict      *)
(* `nested` is the sequence of its items [key, value] in insertion order;  *)
(* the single element of a SEQUENCE OF is a one-item sequence and `None`   *)
(* is the empty sequence.  The factory an EXPANDABLE holds in `nested` is  *)
(* the one-item sequence <<[type, optional]>>.  A range tuple is a         *)
(* sequence of integers in which NoneInt stands for Python's None.         *)
(* Random draws are nondeterministic choices: every generation operator    *)
(* returns the SET of outcomes the call can have.                          *)
(***************************************************************************)
EXTENDS Integers, Sequences, FiniteSets, TLC

VARIABLES
    root,           \* the prototype tree of the schema under test
    ident_history,  \* the history threaded through the factory calls
    expansions,     \* expand_once() calls made so far
    pruned,         \* result of the latest remove_expandable(): "no" before any
    last,           \* the latest call: its arguments and what it returned
    exhausting,     \* the root is a CHOICE (or no call was made yet) and every
                    \* fuzz() call so far was coverage-aware, without allowlist,
                    \* returned, and no flag was reset
    selected,       \* while exhausting: the keys the root CHOICE selected, in order
    was_reset       \* reset_coverage() was invoked

vars == <<root, ident_history, expansions, pruned, last, exhausting, selected, was_reset>>

\* ---------------------------------------------------------------- bounds
MaxExpansions == 2
MaxSeqOfCount == 3
MaxSelected == 4

\* Python's None in an integer slot of a range tuple.
NoneInt == -1
\* Python's None as a range / as a nested attribute.
None == <<>>

\* ---------------------------------------------------------------- values
\* Generated values: every value is a record [t, k, n, v] so that values of
\* different shapes can be compared.
NoneVal == [t |-> "None", k |-> "", n |-> 0, v |-> <<>>]
IntVal(i) == [t |-> "int", k |-> "", n |-> i, v |-> <<>>]
BoolVal(b) == [t |-> "bool", k |-> "", n |-> IF b THEN 1 ELSE 0, v |-> <<>>]
\* one entry key: value of a returned dict
ItemVal(key, val) == [t |-> "item", k |-> key, n |-> 0, v |-> <<val>>]
DictVal(items) == [t |-> "dict", k |-> "", n |-> 0, v |-> items]
TupleVal(key, val) == [t |-> "tuple", k |-> key, n |-> 0, v |-> <<val>>]
ListVal(elems) == [t |-> "list", k |-> "", n |-> 0, v |-> elems]

\* ---------------------------------------------------------------- nodes
Asn1Container(unique_ident, asn1_type, optional, nested, range) ==
    [unique_ident |-> unique_ident,
     asn1_type |-> asn1_type,
     optional |-> optional,
     nested |-> nested,
     range |-> range,
     sequence_member_count |-> 1,
     fully_covered |-> FALSE]

Item(key, value) == [key |-> key, value |-> value]

IsComposite(self) == self.asn1_type \in {"CHOICE", "OPEN_TYPE", "ANY", "SEQUENCE"}
IsChoice(self) == self.asn1_type \in {"CHOICE", "OPEN_TYPE", "ANY"}

\* the child containers of a node (none for scalars and EXPANDABLEs)
Children(self) ==
    IF IsComposite(self) \/ self.asn1_type = "SEQUENCE OF"
    THEN [i \in 1..Len(self.nested) |-> self.nested[i].value]
    ELSE <<>>

WithChild(self, i, child) ==
    [self EXCEPT !.nested = [self.nested EXCEPT ![i] = Item(self.nested[i].key, child)]]

\* ------------------------------------------------------------ schema layer
\* The schema compiler's prototypes.  Identities are <<name, generation>>;
\* the factory stamps the generation it was called with.
Factory(type, optional) == <<[type |-> type, optional |-> optional]>>

Leaf(name, asn1_type, optional, range) ==
    Asn1Container(<<name, 0>>, asn1_type, optional, None, range)

Placeholder(name, type, optional) ==
    Asn1Container(<<name, 0>>, "EXPANDABLE", optional, Factory(type, optional), None)

TypeNames ==
    {"Choice2", "Choice3", "Msg", "Batch", "Opt", "Bounded", "Stepped", "Open", "Plain",
     "X", "L", "M", "Only", "Wrap", "Items"}

Template(type) ==
    CASE type = "Choice2" ->
           Asn1Container(<<"Choice2", 0>>, "CHOICE", FALSE,
             << Item("A", Leaf("A", "NULL", FALSE, None)),
                Item("B", Leaf("B", "BOOLEAN", FALSE, None)) >>, None)
      [] type = "Choice3" ->
           Asn1Container(<<"Choice3", 0>>, "CHOICE", FALSE,
             << Item("A", Leaf("A", "BOOLEAN", FALSE, None)),
                Item("B", Leaf("B", "NULL", FALSE, None)),
                Item("C", Leaf("C", "INTEGER", FALSE, <<0, 1>>)) >>, None)
      [] type = "Msg" ->
           Asn1Container(<<"Msg", 0>>, "SEQUENCE", FALSE,
             << Item("s", Leaf("s", "NULL", FALSE, None)),
                Item("q", Asn1Container(<<"q", 0>>, "SEQUENCE", TRUE,
                       << Item("x", Leaf("x", "NULL", TRUE, None)) >>, None)),
                Item("c", Asn1Container(<<"c", 0>>, "CHOICE", FALSE,
                       << Item("a", Leaf("a", "NULL", FALSE, None)),
                          Item("b", Leaf("b", "INTEGER", FALSE, <<2, 2>>)) >>, None)) >>,
             None)
      [] type = "Batch" ->
           Asn1Container(<<"Batch", 0>>, "SEQUENCE", FALSE,
             << Item("n", Leaf("n", "NULL", TRUE, None)),
                Item("l", Asn1Container(<<"l", 0>>, "SEQUENCE OF", FALSE,
                       << Item("", Leaf("e", "NULL", FALSE, None)) >>, None)) >>, None)
      [] type = "Opt" ->
           Asn1Container(<<"Opt", 0>>, "SEQUENCE", FALSE,
             << Item("o", Leaf("o", "BOOLEAN", TRUE, None)),
                Item("p", Asn1Container(<<"p", 0>>, "CHOICE", TRUE,
                       << Item("y", Leaf("y", "NULL", FALSE, None)),
                          Item("z", Leaf("z", "NULL", FALSE, None)) >>, None)) >>, None)
      [] type = "Bounded" ->
           Asn1Container(<<"Bounded", 0>>, "SEQUENCE OF", FALSE,
             << Item("", Leaf("e", "BOOLEAN", FALSE, None)) >>, <<0, 2, 1>>)
      [] type = "Stepped" ->
           Asn1Container(<<"Stepped", 0>>, "SEQUENCE OF", FALSE,
             << Item("", Leaf("e", "NULL", FALSE, None)) >>, <<0, 4, 2>>)
      [] type = "Open" ->
           Asn1Container(<<"Open", 0>>, "SEQUENCE OF", FALSE,
             << Item("", Asn1Container(<<"e", 0>>, "CHOICE", FALSE,
                       << Item("u", Leaf("u", "NULL", FALSE, None)),
                          Item("v", Leaf("v", "NULL", FALSE, None)) >>, None)) >>,
             <<0, NoneInt, NoneInt>>)
      [] type = "Plain" ->
           Asn1Container(<<"Plain", 0>>, "SEQUENCE OF", FALSE,
             << Item("", Leaf("e", "NULL", FALSE, None)) >>, None)
      [] type = "X" ->
           Asn1Container(<<"X", 0>>, "CHOICE", FALSE,
             << Item("leaf", Leaf("leaf", "NULL", FALSE, None)),
                Item("rec", Placeholder("rec", "X", FALSE)) >>, None)
      [] type = "L" ->
           Asn1Container(<<"L", 0>>, "SEQUENCE", FALSE,
             << Item("val", Leaf("val", "NULL", FALSE, None)),
                Item("next", Placeholder("next", "L", TRUE)),
                Item("any", Asn1Container(<<"any", 0>>, "EXPANDABLE", TRUE, None, None)) >>,
             None)
      [] type = "M" ->
           Asn1Container(<<"M", 0>>, "SEQUENCE", FALSE,
             << Item("hd", Leaf("hd", "NULL", TRUE, None)),
                Item("inner", Placeholder("inner", "M", FALSE)) >>, None)
      [] type = "Only" ->
           Asn1Container(<<"Only", 0>>, "CHOICE", FALSE,
             << Item("rec", Placeholder("rec", "Only", FALSE)) >>, None)
      [] type = "Wrap" ->
           Asn1Container(<<"Wrap", 0>>, "SEQUENCE", FALSE,
             << Item("tag", Leaf("tag", "NULL", FALSE, None)),
                Item("alt", Asn1Container(<<"alt", 0>>, "CHOICE", FALSE,
                       << Item("rec", Placeholder("rec", "Wrap", FALSE)) >>, None)) >>,
             None)
      [] type = "Items" ->
           Asn1Container(<<"Items", 0>>, "SEQUENCE", FALSE,
             << Item("n", Leaf("n", "NULL", FALSE, None)),
                Item("list", Asn1Container(<<"list", 0>>, "SEQUENCE OF", TRUE,
                       << Item("", Placeholder("e", "X", FALSE)) >>, None)) >>, None)

RECURSIVE Stamp(_, _)
Stamp(self, gen) ==
    LET me == [self EXCEPT !.unique_ident = <<self.unique_ident[1], gen>>]
    IN  IF IsComposite(self) \/ self.asn1_type = "SEQUENCE OF"
        THEN [me EXCEPT !.nested =
                 [i \in 1..Len(self.nested) |->
                     Item(self.nested[i].key, Stamp(self.nested[i].value, gen))]]
        ELSE me

\* factory.get_proto(ident_history=history): a fresh subtree and the history
\* after the call.
get_proto(factory, history) ==
    [self |-> [Stamp(Template(factory.type), history) EXCEPT !.optional = factory.optional],
     history |-> history + 1]

\* ------------------------------------------------------------- generation
\* random.randrange(start, stop, step): the values it can return; the empty
\* set is the ValueError it raises on an empty range.
randrange(start, stop, step) ==
    IF step < 1 THEN {}
    ELSE {x \in start..(stop - 1) : (x - start) % step = 0}

better_randrange(start, stop, step) ==
    IF start = stop THEN {start} ELSE randrange(start, stop, step)

\* The values a scalar kind can produce (empty: the draw raises ValueError).
\* OTHER is the `case _` fall-through, which returns None; the string,
\* ENUMERATED and BIT STRING kinds do not occur in the schemas under test.
ScalarDraw(self) ==
    CASE self.asn1_type = "INTEGER" ->
           IF self.range = None THEN {IntVal(i) : i \in randrange(0, 128, 1)}
           ELSE IF self.range[2] = NoneInt
                THEN {IntVal(i) : i \in randrange(self.range[1], 128, 1)}
           ELSE IF self.range[1] = self.range[2] THEN {IntVal(self.range[1])}
           ELSE {IntVal(i) : i \in randrange(self.range[1], self.range[2], 1)}
      [] self.asn1_type = "BOOLEAN" -> {BoolVal(TRUE), BoolVal(FALSE)}
      [] self.asn1_type = "NULL" -> {IntVal(0)}
      [] OTHER -> {NoneVal}

\* An allowlist argument: None, or a set of identities.
NoAllowlist == [given |-> FALSE, ids |-> {}]
Allow(ids) == [given |-> TRUE, ids |-> ids]

\* The second match statement of fuzz(): the coverage flag of the visited
\* node, computed from its children after the value was generated.
UpdateCoverage_onlyWhenGenerated(self, return_val) ==
    CASE self.asn1_type = "SEQUENCE OF" ->
           [self EXCEPT !.fully_covered =
               self.nested[1].value.fully_covered /\ Len(return_val.v) > 0]
      [] IsComposite(self) ->
           [self EXCEPT !.fully_covered =
               \A i \in 1..Len(self.nested) : self.nested[i].value.fully_covered]
      [] OTHER -> [self EXCEPT !.fully_covered = TRUE]

UpdateCoverage(self, return_val) ==
    CASE self.asn1_type = "SEQUENCE OF" ->
           [self EXCEPT !.fully_covered = self.nested[1].value.fully_covered]
      [] IsComposite(self) ->
           [self EXCEPT !.fully_covered =
               \A i \in 1..Len(self.nested) : self.nested[i].value.fully_covered]
      [] OTHER -> [self EXCEPT !.fully_covered = TRUE]

\* An outcome of a fuzz() call on a node: the node afterwards, the value
\* returned, the exception raised ("" for none) and the omission decisions
\* taken for optional SEQUENCE fields during the call.
Return(self, return_val, log) ==
    IF self.asn1_type = "SEQUENCE OF" /\ self.nested = None
    THEN [self |-> self, return_val |-> NoneVal, exc |-> "AttributeError", log |-> log]
    ELSE [self |-> UpdateCoverage(self, return_val), return_val |-> return_val,
          exc |-> "", log |-> log]

Raise(self, exc, log) ==
    [self |-> self, return_val |-> NoneVal, exc |-> exc, log |-> log]

\* SEQUENCE: whether the coin flip is allowed to omit the field `value`.
OmitOptional_whenCovered(self, value, coverage_aware) ==
    value.optional /\ ~(coverage_aware /\ self.fully_covered)

OmitOptional(self, value, coverage_aware) ==
    value.optional /\ (~coverage_aware \/ self.fully_covered)

OmitEvent(self, key, omitted) ==
    [seq |-> self.unique_ident, field |-> key,
     covered |-> self.fully_covered, omitted |-> omitted]

\* CHOICE: the indexes of the candidate children (nested_filtered).
Filtered_all(self, coverage_aware) ==
    {i \in 1..Len(self.nested) : TRUE}

Filtered(self, coverage_aware) ==
    LET all == {i \in 1..Len(self.nested) : TRUE}
        filtered == {i \in all : ~self.nested[i].value.fully_covered}
    IN  IF coverage_aware /\ filtered # {} THEN filtered ELSE all

\* SEQUENCE OF: the node after the count was resolved (fuzz() rewrites the
\* range of an open-ended constraint) and the counts the draw can give
\* (empty: ValueError).
NumElementsSequence(self, max_seq_of_count) ==
    IF self.range = None
    THEN [self |-> self,
          counts |-> IF max_seq_of_count # 1
                     THEN randrange(1, max_seq_of_count, 1) ELSE {1}]
    ELSE IF self.range[2] = NoneInt
    THEN LET forced == IF ~self.fully_covered /\ self.range[1] = 0
                       THEN [self EXCEPT !.range = <<1, self.range[2], self.range[3]>>]
                       ELSE self
             maxValue == IF forced.range[1] > max_seq_of_count
                         THEN forced.range[1] ELSE max_seq_of_count
         IN  [self |-> forced,
              counts |-> IF forced.range[1] # maxValue
                         THEN randrange(forced.range[1], maxValue, 1) ELSE {maxValue}]
    ELSE LET steps == IF self.range[3] # NoneInt THEN self.range[3] ELSE 1
             max_capped == IF self.range[1] + steps > max_seq_of_count
                           THEN self.range[1] + steps ELSE max_seq_of_count
             min_value == IF self.range[1] = 0 /\ ~self.fully_covered
                          THEN max_capped ELSE self.range[1]
             stop == IF self.range[2] < max_capped THEN self.range[2] ELSE max_capped
         IN  [self |-> self, counts |-> better_randrange(min_value, stop, steps)]

RECURSIVE fuzz(_, _, _, _)
RECURSIVE SequenceLoop(_, _, _, _, _, _, _)
RECURSIVE SequenceOfLoop(_, _, _, _, _, _, _)

\* for key, value in self.nested.items(): ... from field i on
SequenceLoop(self, i, retNested, log, allowlist, coverage_aware, max_seq_of_count) ==
    IF i > Len(self.nested) THEN {Return(self, DictVal(retNested), log)}
    ELSE
      LET key == self.nested[i].key
          value == self.nested[i].value
          skip(ev) == SequenceLoop(self, i + 1, retNested, log \cup ev,
                                   allowlist, coverage_aware, max_seq_of_count)
          recurse(ev) ==
            UNION { IF o.exc # ""
                    THEN {Raise(WithChild(self, i, o.self), o.exc, log \cup ev \cup o.log)}
                    ELSE SequenceLoop(WithChild(self, i, o.self), i + 1,
                           IF o.return_val # NoneVal
                           THEN Append(retNested, ItemVal(key, o.return_val))
                           ELSE retNested,
                           log \cup ev \cup o.log,
                           allowlist, coverage_aware, max_seq_of_count)
                  : o \in fuzz(value, allowlist, coverage_aware, max_seq_of_count) }
      IN  IF allowlist.given
          THEN IF value.unique_ident \notin allowlist.ids THEN skip({}) ELSE recurse({})
          ELSE IF OmitOptional(self, value, coverage_aware)
               THEN skip({OmitEvent(self, key, TRUE)})
                    \cup recurse({OmitEvent(self, key, FALSE)})
          ELSE IF value.optional THEN recurse({OmitEvent(self, key, FALSE)})
          ELSE recurse({})

\* for _ in range(numElementsSequence): ret.append(self.nested.fuzz(...))
SequenceOfLoop(self, left, ret, log, allowlist, coverage_aware, max_seq_of_count) ==
    IF left = 0 THEN {Return(self, ListVal(ret), log)}
    ELSE IF self.nested = None THEN {Raise(self, "AttributeError", log)}
    ELSE UNION { IF o.exc # ""
                 THEN {Raise(WithChild(self, 1, o.self), o.exc, log \cup o.log)}
                 ELSE SequenceOfLoop(WithChild(self, 1, o.self), left - 1,
                        Append(ret, o.return_val), log \cup o.log,
                        allowlist, coverage_aware, max_seq_of_count)
               : o \in fuzz(self.nested[1].value, allowlist, coverage_aware,
                            max_seq_of_count) }

fuzz(self, allowlist, coverage_aware, max_seq_of_count) ==
    CASE self.asn1_type = "EXPANDABLE" -> {Raise(self, "ValueError", {})}
      [] self.asn1_type = "SEQUENCE" ->
           SequenceLoop(self, 1, <<>>, {}, allowlist, coverage_aware, max_seq_of_count)
      [] IsChoice(self) ->
           LET select(i) ==
                 { IF o.exc # ""
                   THEN Raise(WithChild(self, i, o.self), o.exc, o.log)
                   ELSE Return(WithChild(self, i, o.self),
                               TupleVal(self.nested[i].key, o.return_val), o.log)
                 : o \in fuzz(self.nested[i].value, allowlist, coverage_aware,
                              max_seq_of_count) }
               possible_choices == Filtered(self, coverage_aware)
               allowed == {i \in 1..Len(self.nested) :
                              self.nested[i].value.unique_ident \in allowlist.ids}
           IN  IF allowlist.given
               THEN IF allowed = {} THEN {Return(self, NoneVal, {})}
                    ELSE select(CHOOSE i \in allowed : \A j \in allowed : i <= j)
               ELSE IF possible_choices = {} THEN {Raise(self, "IndexError", {})}
                    ELSE UNION {select(i) : i \in possible_choices}
      [] self.asn1_type = "SEQUENCE OF" ->
           LET num == NumElementsSequence(self, max_seq_of_count)
           IN  IF num.counts = {} THEN {Raise(num.self, "ValueError", {})}
               ELSE UNION { SequenceOfLoop(num.self, n, <<>>, {}, allowlist,
                                           coverage_aware, max_seq_of_count)
                          : n \in num.counts }
      [] OTHER ->
           IF ScalarDraw(self) = {} THEN {Raise(self, "ValueError", {})}
           ELSE {Return(self, val, {}) : val \in ScalarDraw(self)}

\* --------------------------------------------------------------- expansion
RECURSIVE expand_once(_, _)
RECURSIVE ExpandLoop(_, _, _)

\* for key, value in self.nested.items(): ... from item i on
ExpandLoop(self, i, history) ==
    IF i > Len(self.nested) THEN [self |-> self, history |-> history]
    ELSE LET value == self.nested[i].value
             r == IF value.asn1_type = "EXPANDABLE" /\ value.nested # None
                  THEN get_proto(value.nested[1], history)
                  ELSE expand_once(value, history)
         IN  ExpandLoop(WithChild(self, i, r.self), i + 1, r.history)

expand_once(self, history) ==
    IF IsComposite(self) THEN ExpandLoop(self, 1, history)
    ELSE [self |-> self, history |-> history]

\* ----------------------------------------------------------------- pruning
\* keys_to_remove.append(key): whether the child `value`, whose own pruning
\* returned is_removed, is deleted from self.nested.
KeyToRemove_keepOptional(self, value, is_removed) ==
    IsChoice(self) /\ ~is_removed

KeyToRemove(self, value, is_removed) ==
    \/ IsChoice(self) /\ ~is_removed
    \/ self.asn1_type = "SEQUENCE" /\ ~is_removed /\ value.optional

\* result = False for a SEQUENCE field
LostTheBattle(self, value, is_removed) ==
    self.asn1_type = "SEQUENCE" /\ ~is_removed /\ ~value.optional

RECURSIVE remove_expandable(_)
remove_expandable(self) ==
    CASE self.asn1_type = "EXPANDABLE" -> [self |-> self, result |-> FALSE]
      [] IsComposite(self) ->
           LET walked == [i \in 1..Len(self.nested) |->
                            LET r == remove_expandable(self.nested[i].value)
                            IN  [key |-> self.nested[i].key, value |-> r.self,
                                 is_removed |-> r.result]]
               kept(w) == ~KeyToRemove(self, w.value, w.is_removed)
               left == SelectSeq(walked, kept)
           IN  [self |-> [self EXCEPT !.nested =
                            [i \in 1..Len(left) |-> Item(left[i].key, left[i].value)]],
                result |-> \A i \in 1..Len(walked) :
                              ~LostTheBattle(self, walked[i].value, walked[i].is_removed)]
      [] self.asn1_type = "SEQUENCE OF" ->
           IF self.nested = None THEN [self |-> self, result |-> FALSE]
           ELSE LET r == remove_expandable(self.nested[1].value)
                IN  [self |-> WithChild(self, 1, r.self), result |-> r.result]
      [] OTHER -> [self |-> self, result |-> TRUE]

\* ---------------------------------------------------------- coverage reset
reset_coverage(self) == [self EXCEPT !.fully_covered = FALSE]

\* ------------------------------------------------------------------ paths
\* A node of the tree is named by the child indexes leading to it.
RECURSIVE Paths(_)
Paths(self) ==
    {<<>>} \cup UNION { {<<i>> \o p : p \in Paths(Children(self)[i])}
                        : i \in 1..Len(Children(self)) }

RECURSIVE NodeAt(_, _)
NodeAt(self, p) ==
    IF p = <<>> THEN self ELSE NodeAt(Children(self)[Head(p)], Tail(p))

Nodes(self) == {NodeAt(self, p) : p \in Paths(self)}
Idents(self) == {n.unique_ident : n \in Nodes(self)}

NoSequenceOf(self) == \A n \in Nodes(self) : n.asn1_type # "SEQUENCE OF"

\* The allowlist arguments tried: None, one identity of the tree, or all of
\* them.
Allowlists(self) ==
    {NoAllowlist, Allow(Idents(self))} \cup {Allow({id}) : id \in Idents(self)}

\* ---------------------------------------------------------------- actions
Call(op) ==
    [op |-> op, allowlist |-> NoAllowlist, coverage_aware |-> FALSE,
     return_val |-> NoneVal, exc |-> "", log |-> {}, result |-> TRUE]

Building == last.op \in {"get_proto", "expand_once"}

Init ==
    /\ \E type \in TypeNames :
          LET p == get_proto(Factory(type, FALSE)[1], 0)
          IN  root = p.self /\ ident_history = p.history
    /\ expansions = 0
    /\ pruned = "no"
    /\ last = Call("get_proto")
    /\ exhausting = TRUE
    /\ selected = <<>>
    /\ was_reset = FALSE

\* asn1_prototype.expand_once(ident_history)
ExpandOnce ==
    /\ Building
    /\ expansions < MaxExpansions
    /\ LET r == expand_once(root, ident_history)
       IN  root' = r.self /\ ident_history' = r.history
    /\ expansions' = expansions + 1
    /\ last' = Call("expand_once")
    /\ UNCHANGED <<pruned, exhausting, selected, was_reset>>

\* asn1_prototype.remove_expandable()
RemoveExpandable ==
    /\ Building \/ last.op = "remove_expandable"
    /\ LET r == remove_expandable(root)
       IN  /\ root' = r.self
           /\ pruned' = IF r.result THEN "True" ELSE "False"
           /\ last' = [Call("remove_expandable") EXCEPT !.result = r.result]
    /\ UNCHANGED <<ident_history, expansions, exhausting, selected, was_reset>>

\* asn1_proto.fuzz(allowlist, None, coverage_aware, max_seq_of_count).  Only
\* a SEQUENCE OF reads max_seq_of_count: a tree without one is called with
\* the default.
Fuzz ==
    \E allowlist \in Allowlists(root), coverage_aware \in BOOLEAN,
       max_seq_of_count \in IF NoSequenceOf(root) THEN {1} ELSE 1..MaxSeqOfCount :
      \E o \in fuzz(root, allowlist, coverage_aware, max_seq_of_count) :
        LET more == /\ exhausting /\ coverage_aware /\ ~allowlist.given
                    /\ o.exc = "" /\ IsChoice(root) /\ Len(selected) < MaxSelected
        IN  /\ root' = o.self
            /\ last' = [Call("fuzz") EXCEPT !.allowlist = allowlist,
                          !.coverage_aware = coverage_aware,
                          !.return_val = o.return_val, !.exc = o.exc, !.log = o.log]
            /\ exhausting' = more
            /\ selected' = IF more THEN Append(selected, o.return_val.k) ELSE <<>>
            /\ UNCHANGED <<ident_history, expansions, pruned, was_reset>>

\* asn1_proto.reset_coverage()
ResetCoverage ==
    /\ root' = reset_coverage(root)
    /\ last' = Call("reset_coverage")
    /\ exhausting' = FALSE
    /\ selected' = <<>>
    /\ was_reset' = TRUE
    /\ UNCHANGED <<ident_history, expansions, pruned>>

Next == ExpandOnce \/ RemoveExpandable \/ Fuzz \/ ResetCoverage

Spec == Init /\ [][Next]_vars

\* ---------------------------------------------------------------- helpers
IsScalar(self) == self.asn1_type \in {"INTEGER", "BOOLEAN", "NULL"}

NoExpandable(self) == \A n \in Nodes(self) : n.asn1_type # "EXPANDABLE"

\* the tree with every coverage flag cleared: all attributes but fully_covered
RECURSIVE Uncovered(_)
Uncovered(self) ==
    LET me == [self EXCEPT !.fully_covered = FALSE]
    IN  IF Children(self) = <<>> THEN me
        ELSE [me EXCEPT !.nested =
                 [i \in 1..Len(self.nested) |->
                     Item(self.nested[i].key, Uncovered(self.nested[i].value))]]

\* A node pruning cannot make finite: an EXPANDABLE, a SEQUENCE OF without
\* element or with such an element, a SEQUENCE with such a mandatory field.
RECURSIVE Unremovable(_)
Unremovable(self) ==
    \/ self.asn1_type = "EXPANDABLE"
    \/ /\ self.asn1_type = "SEQUENCE OF"
       /\ (self.nested = None \/ Unremovable(self.nested[1].value))
    \/ /\ self.asn1_type = "SEQUENCE"
       /\ \E i \in 1..Len(self.nested) :
             ~self.nested[i].value.optional /\ Unremovable(self.nested[i].value)

\* the keys of a returned dict
DictKeys(val) == {val.v[i].k : i \in 1..Len(val.v)}

\* ----------------------------------------------------------------- claims

\* C1: coverage monotonicity.  As long as reset_coverage() has not been
\* invoked, a fuzz() call on the root leaves fully_covered true on every
\* node on which it was true before the call.
C1_CoverageMonotone ==
    [][ (last'.op = "fuzz" /\ ~was_reset')
        => \A p \in Paths(root) :
              NodeAt(root, p).fully_covered => NodeAt(root', p).fully_covered ]_vars

\* C1 witness: a CHOICE root became fully covered and further fuzz() calls
\* were made on it afterwards, with no reset.
C1_Witness ==
    /\ last.op = "fuzz" /\ ~was_reset /\ exhausting
    /\ IsChoice(root) /\ root.fully_covered
    /\ Len(root.nested) >= 2 /\ Len(selected) > Len(root.nested)

\* C2: pruning soundness.  When remove_expandable() on the root returns True
\* no EXPANDABLE is reachable from the root afterwards, and a root that is
\* unremovable (an EXPANDABLE itself, a SEQUENCE OF over an unremovable
\* element, a SEQUENCE with an unremovable mandatory field) makes it return
\* False.
C2_PruningSound ==
    [][ last'.op = "remove_expandable"
        => /\ last'.result => NoExpandable(root')
           /\ Unremovable(root) => ~last'.result ]_vars

\* C2 witness: pruning returned True on an expanded list type and deleted
\* the optional placeholders (three fields before, two after).
C2_Witness ==
    /\ last.op = "remove_expandable" /\ last.result
    /\ root.unique_ident[1] = "L" /\ expansions >= 1
    /\ Len(root.nested) = 2 /\ NoExpandable(root)

\* C3: uncovered-first exhaustion.  On a CHOICE root with n >= 1 scalar
\* children, all uncovered at first, the first n coverage-aware fuzz() calls
\* without allowlist select pairwise different children, and after n such
\* calls every child and the CHOICE are fully covered.
C3_UncoveredFirst ==
    (exhausting /\ IsChoice(root) /\ Len(root.nested) >= 1
       /\ \A i \in 1..Len(root.nested) : IsScalar(root.nested[i].value))
    => LET n == Len(root.nested)
           first == {i \in 1..Len(selected) : i <= n}
       IN  /\ \A i, j \in first : i # j => selected[i] # selected[j]
           /\ Len(selected) >= n =>
                 /\ root.fully_covered
                 /\ \A i \in 1..n : root.nested[i].value.fully_covered

\* C3 witness: three coverage-aware calls exhausted a three-way CHOICE.
C3_Witness ==
    /\ exhausting /\ IsChoice(root) /\ Len(root.nested) = 3
    /\ Len(selected) = 3 /\ root.fully_covered

\* C4: allowlist precedence.  fuzz() on a SEQUENCE root of a finite tree with
\* an allowlist of exactly one identity, that of a field of the root, returns
\* a mapping holding exactly that field.
C4_AllowlistPrecedence ==
    (/\ last.op = "fuzz" /\ root.asn1_type = "SEQUENCE" /\ NoExpandable(root)
     /\ last.allowlist.given /\ Cardinality(last.allowlist.ids) = 1
     /\ \E i \in 1..Len(root.nested) :
           root.nested[i].value.unique_ident \in last.allowlist.ids)
    => /\ last.exc = ""
       /\ last.return_val.t = "dict"
       /\ DictKeys(last.return_val) =
             {root.nested[i].key : i \in {j \in 1..Len(root.nested) :
                 root.nested[j].value.unique_ident \in last.allowlist.ids}}

\* C5: never empty while uncovered.  A coverage-aware fuzz() call on a
\* SEQUENCE OF root with a bounded constraint (0, max, step) whose flag is
\* false returns, for every max_seq_of_count >= 1, a list of at least one
\* and at most max elements; the draw of the count never fails.
C5_NeverEmptyWhileUncovered ==
    [][ (/\ last'.op = "fuzz" /\ last'.coverage_aware
         /\ root.asn1_type = "SEQUENCE OF" /\ root.range # None
         /\ root.range[1] = 0 /\ root.range[2] # NoneInt
         /\ ~root.fully_covered)
        => /\ last'.exc = ""
           /\ last'.return_val.t = "list"
           /\ Len(last'.return_val.v) \in 1..root.range[2] ]_vars

\* C6: one level per expansion.  An expand_once() call on the root replaces
\* every EXPANDABLE with a factory that is reachable through SEQUENCE,
\* CHOICE/OPEN_TYPE/ANY and SEQUENCE OF nodes by the factory's fresh subtree,
\* whose own EXPANDABLEs are left alone.
C6_OneLevelPerExpansion ==
    [][ last'.op = "expand_once"
        => \A p \in Paths(root) :
              (NodeAt(root, p).asn1_type = "EXPANDABLE" /\ NodeAt(root, p).nested # None)
              => /\ p \in Paths(root')
                 /\ Stamp(NodeAt(root', p), 0)
                      = get_proto(NodeAt(root, p).nested[1], 0).self ]_vars

\* C7: generation frame.  A fuzz() call changes no attribute of any node
\* other than fully_covered: ranges and children are as before.
C7_GenerationFrame ==
    [][ last'.op = "fuzz" => Uncovered(root') = Uncovered(root) ]_vars

\* What a no-allowlist fuzz() call on the SEQUENCE `seq` can do with its
\* optional field number i: omit it, recurse into it.
CanOmit(seq, i, coverage_aware) ==
    \E o \in fuzz(seq, NoAllowlist, coverage_aware, 1) :
        OmitEvent(seq, seq.nested[i].key, TRUE) \in o.log

CanInclude(seq, i, coverage_aware) ==
    \E o \in fuzz(seq, NoAllowlist, coverage_aware, 1) :
        OmitEvent(seq, seq.nested[i].key, FALSE) \in o.log

OptionalFields(seq) == {i \in 1..Len(seq.nested) : seq.nested[i].value.optional}

Sequences(self) == {n \in Nodes(self) : n.asn1_type = "SEQUENCE"}

\* C8 as stated: without allowlist, omission of optional fields is
\* suppressed when coverage_aware is true and the SEQUENCE is already fully
\* covered; in all other cases the coin flip may omit or include the field.
C8_SuppressedWhenCovered ==
    /\ (last.op = "fuzz" /\ ~last.allowlist.given /\ last.coverage_aware)
       => \A e \in last.log : e.covered => ~e.omitted
    /\ NoExpandable(root) =>
         \A seq \in Sequences(root) : \A i \in OptionalFields(seq) :
           \A coverage_aware \in BOOLEAN :
             /\ CanInclude(seq, i, coverage_aware)
             /\ CanOmit(seq, i, coverage_aware)
                  <=> ~(coverage_aware /\ seq.fully_covered)

\* C8 amended: without allowlist, omission of optional fields is suppressed
\* when coverage_aware is true and the SEQUENCE is NOT yet fully covered; in
\* all other cases the coin flip may omit or include the field.
C8_SuppressedWhileUncovered ==
    /\ (last.op = "fuzz" /\ ~last.allowlist.given /\ last.coverage_aware)
       => \A e \in last.log : ~e.covered => ~e.omitted
    /\ NoExpandable(root) =>
         \A seq \in Sequences(root) : \A i \in OptionalFields(seq) :
           \A coverage_aware \in BOOLEAN :
             /\ CanInclude(seq, i, coverage_aware)
             /\ CanOmit(seq, i, coverage_aware)
                  <=> ~(coverage_aware /\ ~seq.fully_covered)

\* C8 witness: a coverage-aware call without allowlist visited an optional
\* field of a SEQUENCE that was not yet covered (and recursed into it), and
\* omitted an optional field of a SEQUENCE that was.
C8_Witness ==
    /\ last.op = "fuzz" /\ ~last.allowlist.given /\ last.coverage_aware
    /\ \E e \in last.log : ~e.covered /\ ~e.omitted
    /\ \E e \in last.log : e.covered /\ e.omitted

\* C9: coverage-flag consistency.  After construction, fuzz() and
\* reset_coverage() calls, a composite node is fully covered iff all its
\* children are, and a SEQUENCE OF iff its element is.
C9_FlagsConsistent ==
    (pruned = "no" /\ expansions = 0)
    => \A n \in Nodes(root) :
          /\ IsComposite(n) =>
                (n.fully_covered <=>
                   \A i \in 1..Len(n.nested) : n.nested[i].value.fully_covered)
          /\ (n.asn1_type = "SEQUENCE OF" /\ n.nested # None) =>
                (n.fully_covered <=> n.nested[1].value.fully_covered)

\* C10: pruned trees are fuzzable.  On a tree of SEQUENCE, CHOICE, scalar and
\* EXPANDABLE nodes on which remove_expandable() returned True, a fuzz()
\* call without allowlist returns a value and raises nothing.
C10_PrunedTreesFuzzable ==
    (last.op = "fuzz" /\ pruned = "True" /\ ~last.allowlist.given
       /\ NoSequenceOf(root))
    => last.exc = "" /\ last.return_val # NoneVal

====
